---- MODULE Spec2Model ----
(***************************************************************************)
(* State-machine model of the two-workshop simulation engine               *)
(* (src/simulation.py: class Product, class Simulation, and the control    *)
(* events of main()).                                                      *)
(*                                                                         *)
(* Time is counted in whole simulated minutes.  The only sub-minute        *)
(* quantity in the program is the 1e-6 nudge added to ws1_busy_until after *)
(* a schedule; it is kept as a separate count (ws1_busy_nudge), so that    *)
(* "now >= ws1_busy_until" is decided exactly for whole-minute values of   *)
(* now.  Pixel positions are fixed-point numbers with PosScale units per   *)
(* pixel.                                                                  *)
(***************************************************************************)
EXTENDS Integers, Sequences, FiniteSets, TLC

\* ------------------------------------------------------------------ config
WIDTH == 1200
PROD_MIN == 65
PROD_MAX == 85
SETUP_MIN == 5
SETUP_MAX == 15
TRANSFER_MIN == 5
TRANSFER_MAX == 11
PROC_MIN == 30
PROC_MAX == 45

\* SECTION4_RECT = Rect(WIDTH // 2, 120, WIDTH // 2, HEIGHT - 120)
SECTION4_X == WIDTH \div 2
SECTION4_Y == 120
SECTION4_RIGHT == SECTION4_X + WIDTH \div 2

\* WS1_RECT = Rect(SECTION4_RECT.x + 60, SECTION4_RECT.y + 80, 140, 100)
WS1_CENTER_X == (SECTION4_X + 60) + 140 \div 2
WS1_CENTER_Y == (SECTION4_Y + 80) + 100 \div 2
\* WS2_RECT = Rect(SECTION4_RECT.right - 220, SECTION4_RECT.y + 80, 160, 110)
WS2_CENTER_X == (SECTION4_RIGHT - 220) + 160 \div 2
WS2_CENTER_Y == (SECTION4_Y + 80) + 110 \div 2

\* the speeds of the x1/x2/x5/x10/x20 buttons and of the keys 1..5
Speeds == {1, 2, 5, 10, 20}

\* Python's None, for the nullable timestamps, coordinates and ws2_current_id
None == -1

\* fixed-point resolution of the float coordinates p.x, p.y
PosScale == 1000

\* ------------------------------------------------------------------ bounds
\* elapsed real seconds a frame may report: none, a short frame, a long stall
StepElapsed == 35
LongElapsed == 10000
Elapsed == {0, StepElapsed, LongElapsed}
\* the frames of the WS2 scenario: positive, some landing on a completion time
QuarterElapsed == 15
ElapsedWS2 == {QuarterElapsed, StepElapsed}
\* update() calls are explored while the simulated time is at most MaxNow
MaxNow == 175

\* ------------------------------------------------------------------ state
VARIABLES
    now,             \* Simulation.now
    speed,           \* Simulation.speed
    running,         \* Simulation.running
    paused,          \* Simulation.paused
    products,        \* Simulation.products: sequence of Product records
    queue_ws2,       \* Simulation.queue_ws2
    finished_ids,    \* Simulation.finished_ids
    ws1_busy_until,  \* Simulation.ws1_busy_until, whole minutes
    ws1_busy_nudge,  \* number of 1e-6 nudges contained in ws1_busy_until
    ws2_busy_until,  \* Simulation.ws2_busy_until
    ws2_current_id,  \* Simulation.ws2_current_id
    next_pid,        \* Simulation.next_pid
    assigned_list,   \* Simulation.assigned_list
    enqueued,        \* history: every pid appended to queue_ws2, in order
    dequeued         \* history: every pid popped from queue_ws2, in order

vars == <<now, speed, running, paused, products, queue_ws2, finished_ids,
          ws1_busy_until, ws1_busy_nudge, ws2_busy_until, ws2_current_id,
          next_pid, assigned_list, enqueued, dequeued>>

\* the simulation object as one value, for the helper operators below
Sim ==
    [now |-> now, speed |-> speed, running |-> running, paused |-> paused,
     products |-> products, queue_ws2 |-> queue_ws2,
     finished_ids |-> finished_ids, ws1_busy_until |-> ws1_busy_until,
     ws1_busy_nudge |-> ws1_busy_nudge, ws2_busy_until |-> ws2_busy_until,
     ws2_current_id |-> ws2_current_id, next_pid |-> next_pid,
     assigned_list |-> assigned_list, enqueued |-> enqueued,
     dequeued |-> dequeued]

\* the simulation object after a handler: every field takes the value in s
Install(s) ==
    /\ now' = s.now
    /\ speed' = s.speed
    /\ running' = s.running
    /\ paused' = s.paused
    /\ products' = s.products
    /\ queue_ws2' = s.queue_ws2
    /\ finished_ids' = s.finished_ids
    /\ ws1_busy_until' = s.ws1_busy_until
    /\ ws1_busy_nudge' = s.ws1_busy_nudge
    /\ ws2_busy_until' = s.ws2_busy_until
    /\ ws2_current_id' = s.ws2_current_id
    /\ next_pid' = s.next_pid
    /\ assigned_list' = s.assigned_list
    /\ enqueued' = s.enqueued
    /\ dequeued' = s.dequeued

\* the simulation object is s (the state right after construction)
Holds(s) ==
    /\ now = s.now
    /\ speed = s.speed
    /\ running = s.running
    /\ paused = s.paused
    /\ products = s.products
    /\ queue_ws2 = s.queue_ws2
    /\ finished_ids = s.finished_ids
    /\ ws1_busy_until = s.ws1_busy_until
    /\ ws1_busy_nudge = s.ws1_busy_nudge
    /\ ws2_busy_until = s.ws2_busy_until
    /\ ws2_current_id = s.ws2_current_id
    /\ next_pid = s.next_pid
    /\ assigned_list = s.assigned_list
    /\ enqueued = s.enqueued
    /\ dequeued = s.dequeued

\* ------------------------------------------------------------------ Product
\* Product.__init__ (trace is the history of the values assigned to state)
Product(id, prod, setup, transfer, proc) ==
    [pid |-> id, prod_time |-> prod, setup_time |-> setup,
     transfer_time |-> transfer, proc_time |-> proc,
     t_prod_start |-> None, t_prod_done |-> None, t_transfer_done |-> None,
     t_proc_start |-> None, t_proc_done |-> None,
     state |-> "waiting_ws1", trace |-> <<"waiting_ws1">>,
     x |-> None, y |-> None, target_x |-> None, target_y |-> None]

\* p.state = s; the record keeps every value assigned to state, in order
SetState(p, s) == [p EXCEPT !.state = s, !.trace = Append(@, s)]

\* next(pp for pp in products if pp.pid == pid): the first product with the pid
FindProduct(ps, pid) ==
    LET hits == {i \in DOMAIN ps : ps[i].pid = pid}
    IN  CHOOSE i \in hits : \A j \in hits : i <= j

\* ------------------------------------------------------------------ random
\* random.randint(lo, hi): the two ends of the range
Rand(lo, hi) == {lo, hi}

\* variant: processing may take longer than the longest production
DrawsLongProcessing ==
    {dr \in [prod : Rand(PROD_MIN, PROD_MAX), setup : Rand(SETUP_MIN, SETUP_MAX),
             transfer : Rand(TRANSFER_MIN, TRANSFER_MAX),
             proc : Rand(PROC_MIN, PROC_MAX + PROD_MAX)] :
        /\ (dr.setup = SETUP_MIN) = (dr.proc = PROC_MIN)
        /\ (dr.prod = PROD_MIN) = (dr.transfer = TRANSFER_MIN)}

\* the four draws of one _schedule_next_ws1 call.  The draws are independent;
\* the tuples explored are the all-low and all-high ones and the two mixed ones
\* that pair a short production with a long setup and processing, and a long
\* production with a short setup and processing.
Draws ==
    {dr \in [prod : Rand(PROD_MIN, PROD_MAX), setup : Rand(SETUP_MIN, SETUP_MAX),
             transfer : Rand(TRANSFER_MIN, TRANSFER_MAX),
             proc : Rand(PROC_MIN, PROC_MAX)] :
        /\ (dr.setup = SETUP_MIN) = (dr.proc = PROC_MIN)
        /\ (dr.prod = PROD_MIN) = (dr.transfer = TRANSFER_MIN)}

\* ------------------------------------------------------------------ WS1
\* variant: the setup time is left out of ws1_busy_until
ScheduleNextWS1NoSetup(s, dr) ==
    LET p0 == Product(s.next_pid, dr.prod, dr.setup, dr.transfer, dr.proc)
        p1 == [p0 EXCEPT !.t_prod_start = s.now]
        p2 == SetState(p1, "producing_ws1")
        p  == [p2 EXCEPT !.x = WS1_CENTER_X * PosScale,
                         !.y = WS1_CENTER_Y * PosScale]
    IN  [s EXCEPT !.products = Append(@, p),
                  !.ws1_busy_until = s.now + dr.prod,
                  !.ws1_busy_nudge = 0,
                  !.assigned_list =
                      Append(@, <<p.pid, dr.prod, dr.transfer, dr.proc>>),
                  !.next_pid = @ + 1]

\* variant: the log entry records the setup time in place of the transfer time
ScheduleNextWS1LoggingSetup(s, dr) ==
    LET p0 == Product(s.next_pid, dr.prod, dr.setup, dr.transfer, dr.proc)
        p1 == [p0 EXCEPT !.t_prod_start = s.now]
        p2 == SetState(p1, "producing_ws1")
        p  == [p2 EXCEPT !.x = WS1_CENTER_X * PosScale,
                         !.y = WS1_CENTER_Y * PosScale]
    IN  [s EXCEPT !.products = Append(@, p),
                  !.ws1_busy_until = s.now + dr.prod + dr.setup,
                  !.ws1_busy_nudge = 0,
                  !.assigned_list =
                      Append(@, <<p.pid, dr.prod, dr.setup, dr.proc>>),
                  !.next_pid = @ + 1]

\* Simulation._schedule_next_ws1
ScheduleNextWS1(s, dr) ==
    LET p0 == Product(s.next_pid, dr.prod, dr.setup, dr.transfer, dr.proc)
        p1 == [p0 EXCEPT !.t_prod_start = s.now]
        p2 == SetState(p1, "producing_ws1")
        p  == [p2 EXCEPT !.x = WS1_CENTER_X * PosScale,
                         !.y = WS1_CENTER_Y * PosScale]
    IN  [s EXCEPT !.products = Append(@, p),
                  !.ws1_busy_until = s.now + dr.prod + dr.setup,
                  !.ws1_busy_nudge = 0,
                  !.assigned_list =
                      Append(@, <<p.pid, dr.prod, dr.transfer, dr.proc>>),
                  !.next_pid = @ + 1]

\* the fields reset() assigns before it schedules the first item
BlankSim ==
    [now |-> 0, speed |-> 1, running |-> FALSE, paused |-> TRUE,
     products |-> <<>>, queue_ws2 |-> <<>>, finished_ids |-> <<>>,
     ws1_busy_until |-> 0, ws1_busy_nudge |-> 0, ws2_busy_until |-> 0,
     ws2_current_id |-> None, next_pid |-> 1, assigned_list |-> <<>>,
     enqueued |-> <<>>, dequeued |-> <<>>]

\* variant: reset() without the call of _schedule_next_ws1
ResetSimNoSchedule(dr) == BlankSim

\* Simulation.reset
ResetSim(dr) == ScheduleNextWS1(BlankSim, dr)

\* ------------------------------------------------------------------ update
\* abs()
Abs(v) == IF v < 0 THEN 0 - v ELSE v

\* variant: the fraction moved per update is 1 / (4 * transfer_time)
MoveByTransferTime(p) ==
    [p EXCEPT !.x = @ + (p.target_x - @) \div (4 * p.transfer_time),
              !.y = @ + (p.target_y - @) \div (4 * p.transfer_time)]

\* dx = (target_x - x) * 0.05; x += dx (and the same for y)
Move(p) ==
    [p EXCEPT !.x = @ + ((p.target_x - @) * 5) \div 100,
              !.y = @ + ((p.target_y - @) * 5) \div 100]

\* abs(p.x - p.target_x) < 2 and abs(p.y - p.target_y) < 2
AtTarget(p) ==
    /\ Abs(p.x - p.target_x) < 2 * PosScale
    /\ Abs(p.y - p.target_y) < 2 * PosScale

\* variant: production is stamped with the time of the update that sees it
ProduceStepAtTickTime(p, t) ==
    IF /\ p.state = "producing_ws1"
       /\ t >= p.t_prod_start + p.prod_time
       /\ p.t_prod_done = None
    THEN SetState([p EXCEPT !.t_prod_done = t], "produced")
    ELSE p

\* the first if of the loop body: production completes at time t
ProduceStep(p, t) ==
    IF /\ p.state = "producing_ws1"
       /\ t >= p.t_prod_start + p.prod_time
       /\ p.t_prod_done = None
    THEN SetState([p EXCEPT !.t_prod_done = p.t_prod_start + p.prod_time],
                  "produced")
    ELSE p

\* variant: a produced item is appended to the queue state at once
TransferStepSkipping(p) ==
    IF p.state = "produced" /\ p.t_transfer_done = None
    THEN SetState(p, "in_queue_ws2")
    ELSE p

\* the if/elif of the loop body: start of the transfer, or one animation step
TransferStep(p) ==
    IF p.state = "produced" /\ p.t_transfer_done = None
    THEN [SetState(p, "transferring") EXCEPT !.target_x = WS2_CENTER_X * PosScale,
                                             !.target_y = WS2_CENTER_Y * PosScale]
    ELSE IF p.state = "transferring"
         THEN IF AtTarget(Move(p))
              THEN SetState(Move(p), "in_queue_ws2")
              ELSE Move(p)
         ELSE p

\* one pass of the body of "for p in self.products" over product p
LoopBody(p, t) == TransferStep(ProduceStep(p, t))

\* the pids the loop appends to queue_ws2, in the order of self.products
Arrivals(before, after) ==
    LET idx == SelectSeq([i \in DOMAIN before |-> i],
                         LAMBDA i : /\ before[i].state # "in_queue_ws2"
                                    /\ after[i].state = "in_queue_ws2")
    IN  [k \in DOMAIN idx |-> after[idx[k]].pid]

\* variant: the elapsed time is subtracted
AdvanceClockBackwards(s, dt) == [s EXCEPT !.now = @ - dt * s.speed]

\* self.now += dt_real_seconds * self.speed
AdvanceClock(s, dt) == [s EXCEPT !.now = @ + dt * s.speed]

\* the loop "for p in self.products" of update()
ProductionAndTransfer(s) ==
    LET after == [i \in DOMAIN s.products |-> LoopBody(s.products[i], s.now)]
        arr   == Arrivals(s.products, after)
    IN  [s EXCEPT !.products = after,
                  !.queue_ws2 = @ \o arr,
                  !.enqueued = @ \o arr]

\* self.now >= self.ws1_busy_until, now a whole number of minutes
BusyUntilReached(s) ==
    IF s.ws1_busy_nudge > 0
    THEN s.now > s.ws1_busy_until
    ELSE s.now >= s.ws1_busy_until

\* variant: "transferring" counts as having left WS1
LastLeftWS1OrTransferring(s) ==
    \/ Len(s.products) = 0
    \/ s.products[Len(s.products)].state \in
           {"produced", "transferring", "in_queue_ws2", "processing_ws2",
            "finished"}

\* last is None or last.state in ("produced", "in_queue_ws2", ...)
LastLeftWS1(s) ==
    \/ Len(s.products) = 0
    \/ s.products[Len(s.products)].state \in
           {"produced", "in_queue_ws2", "processing_ws2", "finished"}

\* variant: the schedule call sits outside both conditions
ScheduleDueAlways(s) == TRUE

\* the condition under which update() calls _schedule_next_ws1
ScheduleDue(s) == BusyUntilReached(s) /\ LastLeftWS1(s)

\* self._schedule_next_ws1(); self.ws1_busy_until += 1e-6
ScheduleAndNudge(s, dr) ==
    [ScheduleNextWS1(s, dr) EXCEPT !.ws1_busy_nudge = @ + 1]

\* variant: completion is stamped with the time of the update that sees it
CompleteWS2AtTickTime(s) ==
    IF s.ws2_current_id # None
    THEN LET i == FindProduct(s.products, s.ws2_current_id)
         IN  IF s.now >= s.ws2_busy_until
             THEN [s EXCEPT !.products[i] =
                                SetState([@ EXCEPT !.t_proc_done = s.now],
                                         "finished"),
                            !.finished_ids = Append(@, s.products[i].pid),
                            !.ws2_current_id = None]
             ELSE s
    ELSE s

\* variant: the completion check is left out
CompleteWS2Never(s) == s

\* variant: the finished pid is put at the front of finished_ids
CompleteWS2Prepending(s) ==
    IF s.ws2_current_id # None
    THEN LET i == FindProduct(s.products, s.ws2_current_id)
         IN  IF s.now >= s.ws2_busy_until
             THEN [s EXCEPT !.products[i] =
                                SetState([@ EXCEPT !.t_proc_done = s.ws2_busy_until],
                                         "finished"),
                            !.finished_ids = <<s.products[i].pid>> \o @,
                            !.ws2_current_id = None]
             ELSE s
    ELSE s

\* variant: the completion check leaves ws2_current_id set
CompleteWS2KeepingCurrent(s) ==
    IF s.ws2_current_id # None
    THEN LET i == FindProduct(s.products, s.ws2_current_id)
         IN  IF s.now >= s.ws2_busy_until
             THEN [s EXCEPT !.products[i] =
                                SetState([@ EXCEPT !.t_proc_done = s.ws2_busy_until],
                                         "finished"),
                            !.finished_ids = Append(@, s.products[i].pid)]
             ELSE s
    ELSE s

\* "WS2 completion" of update()
CompleteWS2(s) ==
    IF s.ws2_current_id # None
    THEN LET i == FindProduct(s.products, s.ws2_current_id)
         IN  IF s.now >= s.ws2_busy_until
             THEN [s EXCEPT !.products[i] =
                                SetState([@ EXCEPT !.t_proc_done = s.ws2_busy_until],
                                         "finished"),
                            !.finished_ids = Append(@, s.products[i].pid),
                            !.ws2_current_id = None]
             ELSE s
    ELSE s

\* variant: the started item's id is left on the queue
TryStartWS2KeepingQueue(s) ==
    IF s.ws2_current_id = None /\ Len(s.queue_ws2) > 0
    THEN LET pid == Head(s.queue_ws2)
             i   == FindProduct(s.products, pid)
         IN  [s EXCEPT !.dequeued = Append(@, pid),
                       !.products[i] =
                           SetState([@ EXCEPT !.t_proc_start = s.now],
                                    "processing_ws2"),
                       !.ws2_current_id = pid,
                       !.ws2_busy_until = s.now + s.products[i].proc_time]
    ELSE s

\* variant: queue_ws2.pop() takes the newest id
TryStartWS2Newest(s) ==
    IF s.ws2_current_id = None /\ Len(s.queue_ws2) > 0
    THEN LET pid == s.queue_ws2[Len(s.queue_ws2)]
             i   == FindProduct(s.products, pid)
         IN  [s EXCEPT !.queue_ws2 = SubSeq(@, 1, Len(@) - 1),
                       !.dequeued = Append(@, pid),
                       !.products[i] =
                           SetState([@ EXCEPT !.t_proc_start = s.now],
                                    "processing_ws2"),
                       !.ws2_current_id = pid,
                       !.ws2_busy_until = s.now + s.products[i].proc_time]
    ELSE s

\* variant: the next item starts whether or not WS2 is occupied
TryStartWS2Eager(s) ==
    IF Len(s.queue_ws2) > 0
    THEN LET pid == Head(s.queue_ws2)
             i   == FindProduct(s.products, pid)
         IN  [s EXCEPT !.queue_ws2 = Tail(@),
                       !.dequeued = Append(@, pid),
                       !.products[i] =
                           SetState([@ EXCEPT !.t_proc_start = s.now],
                                    "processing_ws2"),
                       !.ws2_current_id = pid,
                       !.ws2_busy_until = s.now + s.products[i].proc_time]
    ELSE s

\* Simulation._try_start_ws2
TryStartWS2(s) ==
    IF s.ws2_current_id = None /\ Len(s.queue_ws2) > 0
    THEN LET pid == Head(s.queue_ws2)
             i   == FindProduct(s.products, pid)
         IN  [s EXCEPT !.queue_ws2 = Tail(@),
                       !.dequeued = Append(@, pid),
                       !.products[i] =
                           SetState([@ EXCEPT !.t_proc_start = s.now],
                                    "processing_ws2"),
                       !.ws2_current_id = pid,
                       !.ws2_busy_until = s.now + s.products[i].proc_time]
    ELSE s

\* update() up to the scheduling check, for a running simulation
BeforeSchedule(s, dt) == ProductionAndTransfer(AdvanceClock(s, dt))

\* variant: the start of the next item is tried before the completion check
AfterScheduleStartFirst(s) == CompleteWS2(TryStartWS2(s))

\* update() from the WS2 completion check to its end
AfterSchedule(s) == TryStartWS2(CompleteWS2(s))

\* if not self.running or self.paused: return
Idle(s) == ~s.running \/ s.paused

\* ------------------------------------------------------------------ actions
\* Simulation.__init__: self.reset()
Init == \E dr \in Draws : Holds(ResetSim(dr))

\* variant: the clock advances before the running/paused test
UpdateClockFirst(dt) ==
    /\ now <= MaxNow
    /\ IF Idle(Sim)
       THEN Install(AdvanceClock(Sim, dt))
       ELSE LET s1 == BeforeSchedule(Sim, dt)
            IN  IF ScheduleDue(s1)
                THEN \E dr \in Draws :
                         Install(AfterSchedule(ScheduleAndNudge(s1, dr)))
                ELSE Install(AfterSchedule(s1))

\* Simulation.update, called with dt seconds elapsed
UpdateBody(dt) ==
    IF Idle(Sim)
    THEN UNCHANGED vars
    ELSE \E s1 \in {BeforeSchedule(Sim, dt)} :
             IF ScheduleDue(s1)
             THEN \E dr \in Draws :
                      \E s2 \in {AfterSchedule(ScheduleAndNudge(s1, dr))} :
                          Install(s2)
             ELSE \E s2 \in {AfterSchedule(s1)} : Install(s2)

\* sim.update(dt_real), called once per frame of the main loop
Update(dt) == now <= MaxNow /\ UpdateBody(dt)

Tick == \E dt \in Elapsed : Update(dt)

\* Start button
Start ==
    /\ running' = TRUE
    /\ paused' = FALSE
    /\ UNCHANGED <<now, speed, products, queue_ws2, finished_ids,
                   ws1_busy_until, ws1_busy_nudge, ws2_busy_until,
                   ws2_current_id, next_pid, assigned_list, enqueued, dequeued>>

\* variant: Pause also clears running
PauseStopping ==
    /\ paused' = TRUE
    /\ running' = FALSE
    /\ UNCHANGED <<now, speed, products, queue_ws2, finished_ids,
                   ws1_busy_until, ws1_busy_nudge, ws2_busy_until,
                   ws2_current_id, next_pid, assigned_list, enqueued, dequeued>>

\* Pause button
Pause ==
    /\ paused' = TRUE
    /\ UNCHANGED <<now, speed, running, products, queue_ws2, finished_ids,
                   ws1_busy_until, ws1_busy_nudge, ws2_busy_until,
                   ws2_current_id, next_pid, assigned_list, enqueued, dequeued>>

\* Space key
ToggleSpace ==
    /\ running' = TRUE
    /\ paused' = ~paused
    /\ UNCHANGED <<now, speed, products, queue_ws2, finished_ids,
                   ws1_busy_until, ws1_busy_nudge, ws2_busy_until,
                   ws2_current_id, next_pid, assigned_list, enqueued, dequeued>>

\* x1/x2/x5/x10/x20 buttons, keys 1..5
SetSpeedTo(v) ==
    /\ speed' = v
    /\ UNCHANGED <<now, running, paused, products, queue_ws2, finished_ids,
                   ws1_busy_until, ws1_busy_nudge, ws2_busy_until,
                   ws2_current_id, next_pid, assigned_list, enqueued, dequeued>>

SetSpeed == \E v \in Speeds : SetSpeedTo(v)

\* Stop button, key S: sim.reset()
Reset == \E dr \in Draws : Install(ResetSim(dr))

Next == Tick \/ Start \/ Pause \/ ToggleSpace \/ SetSpeed \/ Reset

Spec == Init /\ [][Next]_vars

\* ------------------------------------------------------------------ WS2 scenario
\* The configured ranges keep queue_ws2 from ever holding two ids in a run
\* from reset(), so the queue discipline is exercised from the state the
\* scenario "WS2 given three queued items" sets up: a started simulation
\* straight after reset() to which three more products were appended in state
\* in_queue_ws2, their pids put on queue_ws2 in some order, WS2 idle.
ScenarioPids == {2, 3, 4}

\* p = Product(...); p.state = "in_queue_ws2"
QueuedProduct(id, dr) ==
    SetState(Product(id, dr.prod, dr.setup, dr.transfer, dr.proc), "in_queue_ws2")

\* the orders in which the scenario's pids can have been appended to queue_ws2
QueueOrders ==
    {q \in [1 .. Cardinality(ScenarioPids) -> ScenarioPids] :
        \A i, j \in DOMAIN q : q[i] = q[j] => i = j}

\* the simulation object the scenario starts from
ScenarioSim(dr1, drs, q) ==
    [ResetSim(dr1) EXCEPT !.running = TRUE,
                          !.paused = FALSE,
                          !.products = @ \o [k \in 1 .. Cardinality(ScenarioPids) |->
                                                QueuedProduct(k + 1, drs[k + 1])],
                          !.queue_ws2 = q,
                          !.next_pid = @ + Cardinality(ScenarioPids),
                          !.enqueued = q]

\* the draws of the appended products: all low or all high
ScenarioDraws == {dr \in Draws : (dr.prod = PROD_MIN) = (dr.proc = PROC_MIN)}

InitWS2 ==
    \E dr1 \in Draws, drs \in [ScenarioPids -> ScenarioDraws], q \in QueueOrders :
        Holds(ScenarioSim(dr1, drs, q))

\* sim.update(dt_real) with a positive elapsed time
TickWS2 == \E dt \in ElapsedWS2 : Update(dt)

NextWS2 == TickWS2

SpecWS2 == InitWS2 /\ [][NextWS2]_vars

\* an upper bound on the number of passes of the "transferring" branch
MaxPasses == 128

\* the product after each of n successive passes of the "transferring" branch
\* over p, without the test for arrival
RECURSIVE Passings(_, _)
Passings(p, n) ==
    IF n = 1
    THEN <<Move(p)>>
    ELSE LET half == Passings(p, n \div 2)
         IN  half \o Passings(half[Len(half)], n - n \div 2)

\* an item as the "produced" branch leaves it: at WS1, aimed at WS2
Departing ==
    LET p == Product(None, PROD_MIN, SETUP_MIN, TRANSFER_MIN, PROC_MIN)
    IN  TransferStep(SetState([p EXCEPT !.x = WS1_CENTER_X * PosScale,
                                        !.y = WS1_CENTER_Y * PosScale],
                              "produced"))

\* the number of passes that take an item from WS1 onto queue_ws2: the first
\* pass after which the item is within 2 pixels of the centre of WS2
TransferTicks ==
    LET ps == Passings(Departing, MaxPasses)
    IN  CHOOSE k \in DOMAIN ps :
            AtTarget(ps[k]) /\ \A j \in 1 .. k - 1 : ~AtTarget(ps[j])

\* ------------------------------------------------------------------ a run
\* The simulation after reset(), a choice of speed and Start, left running:
\* no further control event, and every frame of the main loop lasts
\* QuarterElapsed seconds.
InitLive ==
    \E dr \in Draws, v \in Speeds :
        Holds([ResetSim(dr) EXCEPT !.speed = v, !.running = TRUE, !.paused = FALSE])

\* the number of items whose whole life the run covers
LiveItems == 2

\* the run is followed until the latest time at which the first LiveItems
\* items can be finished and followed by another item: a production and a
\* processing time, TransferTicks updates, and the updates that detect the
\* completions, for each item
LiveHorizon ==
    LiveItems * (PROD_MAX + PROC_MAX + (TransferTicks + 4) * QuarterElapsed * speed)

\* sim.update(dt_real) with a positive elapsed time
TickLive == now <= LiveHorizon /\ UpdateBody(QuarterElapsed)

NextLive == TickLive

\* the main loop calls update() once per frame for as long as it runs
SpecLive == InitLive /\ [][NextLive]_vars /\ WF_vars(TickLive)

\* ------------------------------------------------------------------ properties
\* the indices of the products in state st
InState(st) == {i \in DOMAIN products : products[i].state = st}

\* the lifecycle of an item, in order
Lifecycle ==
    <<"waiting_ws1", "producing_ws1", "produced", "transferring",
      "in_queue_ws2", "processing_ws2", "finished">>

\* sequence q has no repeated element
NoDuplicates(q) == \A i, j \in DOMAIN q : q[i] = q[j] => i = j

\* everything but the two flags / but the speed
AllButFlags ==
    <<now, speed, products, queue_ws2, finished_ids, ws1_busy_until,
      ws1_busy_nudge, ws2_busy_until, ws2_current_id, next_pid, assigned_list,
      enqueued, dequeued>>
AllButSpeed ==
    <<now, running, paused, products, queue_ws2, finished_ids, ws1_busy_until,
      ws1_busy_nudge, ws2_busy_until, ws2_current_id, next_pid, assigned_list,
      enqueued, dequeued>>

\* C1: an update() call made while running is false or paused is true leaves
\* every field of the simulation as it was, whatever the elapsed time.
C1_IdleUpdateChangesNothing ==
    [][(Idle(Sim) /\ Tick) => UNCHANGED vars]_vars

\* C1 witness: a paused simulation that has already made progress.
C1_Witness ==
    /\ running /\ paused /\ now > 0
    /\ InState("transferring") # {}

\* C2: in every reachable state at most one item is producing_ws1 and at
\* most one is processing_ws2.
C2_SingleSlots ==
    /\ Cardinality(InState("producing_ws1")) <= 1
    /\ Cardinality(InState("processing_ws2")) <= 1

\* C2 witness: both workshops occupied at once.
C2_Witness ==
    /\ Cardinality(InState("producing_ws1")) = 1
    /\ Cardinality(InState("processing_ws2")) = 1

C5_FinishedGrows ==
    /\ [](NoDuplicates(finished_ids))
    /\ [][\/ Reset
          \/ finished_ids' = finished_ids
          \/ \E i \in DOMAIN products :
                /\ products[i].state = "processing_ws2"
                /\ products'[i].state = "finished"
                /\ finished_ids' = Append(finished_ids, products[i].pid)]_vars

\* C5 witness: two ids have been appended.
C5_Witness == Len(finished_ids) = 2

\* the state the claim C6 describes
Fresh ==
    /\ now = 0
    /\ Len(products) = 1
    /\ products[1].state = "producing_ws1"
    /\ products[1].t_prod_start = 0
    /\ finished_ids = <<>>
    /\ queue_ws2 = <<>>
    /\ ws2_current_id = None
    /\ Len(assigned_list) = 1

\* C6: right after reset(), from any state (and after construction), time
\* is 0, one item exists and is producing_ws1 since time 0, finished_ids and
\* queue_ws2 are empty, WS2 has no current item, the log has one entry.
C6_ResetIsFresh == Fresh /\ [][Reset => Fresh']_vars

\* C6 witness: the fresh state, with the flags and speed reset() assigns.
C6_Witness == Fresh /\ ~running /\ paused /\ speed = 1

\* an update() of LongElapsed seconds at speed 1 from simulated time 0
LongFirstUpdate == now = 0 /\ speed = 1 /\ Update(LongElapsed)

\* C7 as stated: after reset() and one update() of 10000 minutes at speed 1,
\* exactly one item is finished and the log has at least one entry.
C7_AsStated ==
    [][LongFirstUpdate =>
           /\ Cardinality(InState("finished"))' = 1
           /\ Len(assigned_list') >= 1]_vars

\* C7 amended: after reset() and one update() of 10000 minutes at speed 1 no
\* item is finished and the log has at least one entry; when the simulation
\* was running the first item is transferring with t_prod_done set to its
\* production time.
C7_LongUpdateFinishesNothing ==
    [][LongFirstUpdate =>
           /\ InState("finished")' = {}
           /\ finished_ids' = <<>>
           /\ Len(assigned_list') >= 1
           /\ ~Idle(Sim) =>
                  /\ products'[1].state = "transferring"
                  /\ products'[1].t_prod_done = products[1].prod_time]_vars

\* C7 witness: the state after the long update of a running simulation.
C7_Witness ==
    /\ now = LongElapsed
    /\ products[1].state = "transferring"
    /\ products[1].t_prod_done = products[1].prod_time
    /\ finished_ids = <<>>

\* C8: an item is scheduled no earlier than the ws1_busy_until in force,
\* so each item's t_prod_start is at least the previous item's t_prod_start
\* plus its production time plus its setup time.
C8_NoWS1Overlap ==
    /\ [](\A i \in DOMAIN products :
            i > 1 => products[i].t_prod_start >=
                        products[i - 1].t_prod_start + products[i - 1].prod_time
                            + products[i - 1].setup_time)
    /\ [][(Len(products') > Len(products) /\ ~Reset) =>
              /\ products'[Len(products')].t_prod_start = now'
              /\ now' >= ws1_busy_until]_vars

\* C8 witness: a second item has been scheduled.
C8_Witness == Len(products) >= 2

\* C10: Start sets running and clears paused; Pause sets paused and keeps
\* running; Space sets running and negates paused; a speed button sets only
\* the speed; none of them touches any other field.
C10_ControlsTouchOnlyFlags ==
    [][/\ Start => (running' /\ ~paused' /\ UNCHANGED AllButFlags)
       /\ Pause => (paused' /\ running' = running /\ UNCHANGED AllButFlags)
       /\ ToggleSpace =>
              (running' /\ paused' = ~paused /\ UNCHANGED AllButFlags)
       /\ \A v \in Speeds :
              SetSpeedTo(v) => (speed' = v /\ UNCHANGED AllButSpeed)]_vars

\* C10 witness: Pause pressed on a started simulation that has progressed.
C10_Witness == running /\ paused /\ Len(products) >= 2

\* the product with the given pid
ProductOf(pid) == products[FindProduct(products, pid)]

ScenarioDone ==
    /\ Len(dequeued) >= 3
    /\ \A k \in 1 .. 3 : ProductOf(dequeued[k]).state = "finished"

\* simulated time from the first processing start to the third processing end
ScenarioSpan ==
    ProductOf(dequeued[3]).t_proc_done - ProductOf(dequeued[1]).t_proc_start

\* the sum of the three processing durations
ScenarioWork ==
    ProductOf(dequeued[1]).proc_time + ProductOf(dequeued[2]).proc_time
        + ProductOf(dequeued[3]).proc_time

C9_ExactWitness == ScenarioDone /\ ScenarioSpan = ScenarioWork

\* C11: simulated time is never negative, and no step other than a reset
\* lowers it: after every update with a non-negative elapsed time and after
\* every control operation it is at least what it was.
C11_TimeNeverDecreases ==
    /\ [](now >= 0)
    /\ [][now' >= now \/ Reset]_vars

\* C11 witness: time has advanced over several updates at a changed speed,
\* with a pause in between.
C11_Witness == now > StepElapsed /\ speed > 1 /\ running /\ paused

\* the most recently created product of simulation object s
LastProduct(s) == s.products[Len(s.products)]

\* C12 as stated: an update of a running simulation schedules the next item
\* exactly when, at the scheduling check, the time has reached ws1_busy_until
\* and the most recently created item is no longer waiting_ws1 or
\* producing_ws1.
C12_AsStated ==
    [][\A dt \in Elapsed :
          (~Idle(Sim) /\ Update(dt)) =>
              LET s1 == BeforeSchedule(Sim, dt)
              IN  (Len(products') > Len(products)) <=>
                      /\ BusyUntilReached(s1)
                      /\ LastProduct(s1).state \notin
                             {"waiting_ws1", "producing_ws1"}]_vars

\* an update() of a simulation that is running and not paused
RunningTick == ~Idle(Sim) /\ (Tick \/ TickWS2)

PidsInState(st) == {products[i].pid : i \in InState(st)}

C15_IdsAndLogAligned ==
    /\ [](/\ \A i \in DOMAIN products : products[i].pid = i
          /\ next_pid = Len(products) + 1
          /\ Len(assigned_list) = Len(products)
          /\ \A i \in DOMAIN assigned_list :
                assigned_list[i] = <<i, products[i].prod_time,
                                     products[i].transfer_time,
                                     products[i].proc_time>>)
    /\ [][Tick => \/ assigned_list' = assigned_list
                  \/ /\ Len(assigned_list') = Len(assigned_list) + 1
                     /\ SubSeq(assigned_list', 1, Len(assigned_list))
                            = assigned_list]_vars
    /\ [][~Reset => /\ Len(assigned_list') >= Len(assigned_list)
                    /\ SubSeq(assigned_list', 1, Len(assigned_list))
                           = assigned_list]_vars

\* C15 witness: a second item was created by an update(), with a transfer
\* time that differs from its setup time.
C15_Witness ==
    /\ Len(products) = 2
    /\ next_pid = 3
    /\ Len(assigned_list) = 2
    /\ products[2].transfer_time # products[2].setup_time

\* the timestamps of product p that are set, in lifecycle order
SetStamps(p) ==
    SelectSeq(<<p.t_prod_start, p.t_prod_done, p.t_proc_start, p.t_proc_done>>,
              LAMBDA t : t # None)

\* C16: for every product, t_prod_done when set is t_prod_start + prod_time;
\* a finished product has t_proc_done = t_proc_start + proc_time; and the
\* timestamps that are set satisfy t_prod_start <= t_prod_done <= t_proc_start
\* <= t_proc_done, however far the detecting update() overshoots.
C16_ExactTimestamps ==
    \A i \in DOMAIN products :
        LET p == products[i]
        IN  /\ p.t_prod_done # None =>
                   /\ p.t_prod_start # None
                   /\ p.t_prod_done = p.t_prod_start + p.prod_time
            /\ p.state = "finished" =>
                   /\ p.t_proc_start # None
                   /\ p.t_proc_done # None
                   /\ p.t_proc_done = p.t_proc_start + p.proc_time
            /\ \A j, k \in DOMAIN SetStamps(p) :
                   j <= k => SetStamps(p)[j] <= SetStamps(p)[k]

\* C16 witness: an item is finished, and both its production and its
\* processing were detected by updates later than their due times.
C16_Witness ==
    \E i \in DOMAIN products :
        /\ products[i].state = "finished"
        /\ products[i].t_proc_done < now
        /\ products[i].t_prod_done < products[i].t_proc_start
        /\ \E j \in DOMAIN products :
               j > i /\ products[j].t_prod_start > products[i].t_prod_done

\* TransferPath[k] is the position after k passes of the "transferring" branch
TransferPath ==
    LET ps == Passings(Departing, TransferTicks)
    IN  [k \in DOMAIN ps |-> <<ps[k].x, ps[k].y>>]

\* the position after k passes, k = 0 being the position at WS1
PathPos(k) == IF k = 0 THEN <<Departing.x, Departing.y>> ELSE TransferPath[k]

\* product p is on the transfer path
OnPath(p) == \E k \in 0 .. TransferTicks : PathPos(k) = <<p.x, p.y>>

\* the number of passes of the "transferring" branch product p has had
\* (None for a product that is not on the path)
Passes(p) ==
    IF OnPath(p)
    THEN CHOOSE k \in 0 .. TransferTicks : PathPos(k) = <<p.x, p.y>>
    ELSE None

\* C17: an item is appended to queue_ws2 by the TransferTicks-th update() of a
\* running simulation after the one that made it transferring, whatever its
\* transfer_time, the speed and the elapsed times: every such update() moves a
\* transferring item one position along the same path, and the item leaves
\* transferring exactly at the end of the path; t_transfer_done is never set.
C17_ArrivalByTickCount ==
    /\ [](\A i \in DOMAIN products :
             LET p == products[i]
             IN  /\ p.t_transfer_done = None
                 /\ p.state = "transferring" =>
                        OnPath(p) /\ Passes(p) < TransferTicks
                 /\ p.state \in {"in_queue_ws2", "processing_ws2", "finished"} =>
                        OnPath(p) /\ Passes(p) = TransferTicks)
    /\ [][RunningTick =>
             \A i \in DOMAIN products :
                 products[i].state = "transferring" =>
                     /\ Passes(products'[i]) = Passes(products[i]) + 1
                     /\ (products'[i].state # "transferring")
                            <=> (Passes(products'[i]) = TransferTicks)]_vars

\* C17 witness: two items with different transfer times have both arrived,
\* the second one after updates at a speed other than 1.
C17_Witness ==
    /\ Len(products) >= 2
    /\ products[1].transfer_time # products[2].transfer_time
    /\ products[1].state = "finished"
    /\ products[2].state \in {"processing_ws2", "finished"}
    /\ speed # 1

\* C18: from reset(), queue_ws2 is empty and no item is in_queue_ws2 in every
\* state between updates; an update() appends at most one pid to queue_ws2,
\* finds WS2 idle at that moment and starts that item in the same update().
C18_QueueEmptyBetweenTicks ==
    /\ [](queue_ws2 = <<>> /\ InState("in_queue_ws2") = {})
    /\ [][\A dt \in Elapsed :
              (~Idle(Sim) /\ Update(dt)) =>
                  LET s1 == BeforeSchedule(Sim, dt)
                  IN  /\ Len(s1.queue_ws2) <= 1
                      /\ Len(s1.queue_ws2) = 1 =>
                             /\ CompleteWS2(s1).ws2_current_id = None
                             /\ ws2_current_id' = s1.queue_ws2[1]
                             /\ LET i == FindProduct(products, s1.queue_ws2[1])
                                IN  products'[i].state = "processing_ws2"]_vars

\* C18 witness: the second item arrived in the very update() that detected
\* the completion of the first one, and was started by it.
C18_Witness ==
    /\ Len(finished_ids) = 1
    /\ Len(dequeued) = 2
    /\ ws2_current_id = 2
    /\ ProductOf(2).t_proc_start = now
    /\ ProductOf(1).trace[Len(ProductOf(1).trace)] = "finished"
    /\ ProductOf(1).t_proc_done > now - StepElapsed
    /\ ProductOf(1).t_proc_done <= now

\* C20: in every reachable state finished_ids is <<1, 2, ..., k>> for some
\* k >= 0, the products with pids 1..k are finished and no product with a
\* pid above k is.
C20_FinishInCreationOrder ==
    /\ \A k \in DOMAIN finished_ids : finished_ids[k] = k
    /\ Len(finished_ids) <= Len(products)
    /\ \A i \in DOMAIN products :
           (products[i].state = "finished") <=> (products[i].pid <= Len(finished_ids))

\* C20 witness: two items have finished and a third one exists.
C20_Witness ==
    /\ finished_ids = <<1, 2>>
    /\ Len(products) = 3
    /\ products[3].state # "finished"

\* C19: while the simulation stays running and update() keeps being called
\* with a positive elapsed time, each of the first LiveItems items, once
\* created, eventually is finished and is followed by a further item.
C19_Progress ==
    \A pid \in 1 .. LiveItems :
        (Len(products) >= pid)
            ~> (Len(products) > pid /\ products[pid].state = "finished")

\* C19 witness: the first LiveItems items are finished and a further item is
\* on its way.
C19_Witness ==
    /\ Len(finished_ids) = LiveItems
    /\ Len(products) > LiveItems
    /\ products[LiveItems].state = "finished"
    /\ products[LiveItems + 1].state \in {"producing_ws1", "transferring"}

====
